---- MODULE Spec2Model ----
(***************************************************************************)
(* The todo application: the tables of the schema, the Todo entity module, *)
(* the Todo, User and Auth controllers, and the HTTP client of the tests   *)
(* that drives them.  One action per route handler.                        *)
(***************************************************************************)
EXTENDS Integers, FiniteSets, Sequences, TLC

\* ------------------------------------------------------------------ bounds
MaxTodos == 1
MaxTime == 2
MaxReserved == 1
MaxSubtodos == 2
MaxInFlight == 2

\* ------------------------------------------------------- values and inputs
\* A body field or prop that is absent (undefined in the request body).
Missing == "undefined"
\* No user: nobody logged in (the client), no owner.
NoUser == "nobody"
\* A nullable TIMESTAMP column holding NULL.
NullTime == 0

Emails == {"user1@email.com", "user2@email.com"}
Passwords == {"password", "invalidpassword"}
Titles == {"Test Todo", "Updated Test Todo"}
Descriptions == {"This is a test todo", "This is an updated test todo"}
Ids == 1 .. (MaxTodos + 1)
\* What req.getId() gives for an id segment that is no number, as in /todos/abc.
NaN == -1
\* The id segments a request may carry.
IdParams == Ids \cup {NaN}
\* The todo_id of a subtodo that refers to no Todo (NULL).
NullRef == 0

\* How one store call ends: the statement runs, sql.reserve() rejects, or the
\* statement rejects after the connection was reserved.
StoreOutcomes == {"ok", "reserveFails", "statementFails"}

TodoRoutes ==
    { "GET /todos", "GET /todos/:id", "POST /todos", "PUT /todos/:id",
      "DELETE /todos/:id", "PUT /todos/:id/complete" }

VARIABLES
    todos,      \* table todos: the set of its rows
    nextId,     \* todos_id_seq: the id the next inserted row gets
    users,      \* table users: the set of its rows
    reserved,   \* pool connections reserved and not released
    now,        \* the clock createUTCDate() reads
    lastReq,    \* the request the last handler ran for
    res,        \* what that handler passed to res.send, NoResponse if nothing
    registered, \* client: the credentials it asked to register (first per email)
    actingAs,   \* client: whose registered credentials it last posted to /login
    creator,    \* client: who it was acting as when it posted each Todo
    logged,     \* whether that handler caught an error and wrote it to console.error
    subtodos,   \* table subtodos: the set of its rows
    nextSubId,  \* subtodos_id_seq
    routes,     \* the router's bindings, in the order they were registered
    dispatched, \* the last request the router matched, with the handler it found
    inflight    \* per request under way: the handler's position and what it read

vars == << todos, nextId, users, reserved, now, lastReq, res, registered,
           actingAs, creator, logged, subtodos, nextSubId, routes, dispatched,
           inflight >>

store == << todos, nextId, users, subtodos, nextSubId >>
client == << registered, actingAs, creator >>
serving == << routes, dispatched, inflight >>

\* --------------------------------------------------------------- responses
StatusOK == 200
StatusCreated == 201
StatusBadRequest == 400
StatusUnauthorized == 401
StatusForbidden == 403
StatusNotFound == 404
\* The status of a StoreError in the taxonomy of errors.
StatusServerError == 500

\* payload.todo / payload.user are sets of at most one row (empty: undefined);
\* payload.todos is the set of listed rows.
Response(statusCode, message, todo, list) ==
    [ statusCode |-> statusCode, message |-> message, todo |-> todo,
      todos |-> list, user |-> {} ]

\* The handler returned without calling res.send.
NoResponse == Response(0, "", {}, {})

Request(route, id, title, description, email, password, confirmPassword) ==
    [ route |-> route, id |-> id, title |-> title, description |-> description,
      email |-> email, password |-> password,
      confirmPassword |-> confirmPassword ]

TodoRequest(route, id, title, description) ==
    Request(route, id, title, description, Missing, Missing, Missing)

UserRequest(route, email, password, confirmPassword) ==
    Request(route, 0, Missing, Missing, email, password, confirmPassword)

\* ------------------------------------------------------------------ schema
\* A row of table todos with the column defaults of the schema.
TodoRow(id, title, description, status, createdAt) ==
    [ id |-> id, title |-> title, description |-> description,
      status |-> status, dueAt |-> NullTime, createdAt |-> createdAt,
      completedAt |-> NullTime, editedAt |-> NullTime ]

\* The columns of table todos, in the application's (camel case) names.
TodoColumns ==
    { "id", "title", "description", "status", "dueAt", "createdAt",
      "completedAt", "editedAt" }

\* ------------------------------------------------------------- Todo module
\* The INSERT of Todo.create rejects: an undefined value, a NOT NULL column
\* without a value, or a prop that is no column of the table.
InsertRejects(props) ==
    \/ ~(DOMAIN props \subseteq TodoColumns)
    \/ \E k \in DOMAIN props \cap {"title", "description"} : props[k] = Missing
    \/ ~({"title", "description"} \subseteq DOMAIN props)

\* Todo.create: [threw, todo, rows, seq, leaked].  The connection is released
\* only after the statement resolved.
TodoCreate(rows, seq, props, outcome) ==
    IF outcome = "reserveFails"
    THEN [ threw |-> TRUE, todo |-> {}, rows |-> rows, seq |-> seq,
           leaked |-> 0 ]
    ELSE IF outcome = "statementFails" \/ InsertRejects(props)
    THEN [ threw |-> TRUE, todo |-> {}, rows |-> rows, seq |-> seq,
           leaked |-> 1 ]
    ELSE LET row == TodoRow(seq, props.title, props.description,
                            props.status, props.createdAt)
         IN  [ threw |-> FALSE, todo |-> {row}, rows |-> rows \cup {row},
               seq |-> seq + 1, leaked |-> 0 ]

\* Todo.read: [threw, todo, leaked]; todo is empty for null.  NaN is no value
\* of the integer column id: the SELECT rejects.
TodoRead(rows, id, outcome) ==
    IF outcome = "reserveFails"
    THEN [ threw |-> TRUE, todo |-> {}, leaked |-> 0 ]
    ELSE IF outcome = "statementFails" \/ id = NaN
    THEN [ threw |-> TRUE, todo |-> {}, leaked |-> 1 ]
    ELSE [ threw |-> FALSE, todo |-> { r \in rows : r.id = id }, leaked |-> 0 ]

\* Todo.readAll: SELECT * FROM todos, whatever userId and filters are given.
TodoReadAll(rows, userId, filters, outcome) ==
    IF outcome = "reserveFails"
    THEN [ threw |-> TRUE, todos |-> {}, leaked |-> 0 ]
    ELSE IF outcome = "statementFails"
    THEN [ threw |-> TRUE, todos |-> {}, leaked |-> 1 ]
    ELSE [ threw |-> FALSE, todos |-> rows, leaked |-> 0 ]

\* The UPDATE of Todo.update rejects: with no prop to set the statement reads
\* "SET , edited_at = ...", and a prop may be no column of the table.
UpdateRejects(updateProps) ==
    \/ DOMAIN updateProps = {}
    \/ ~(DOMAIN updateProps \subseteq TodoColumns)

\* The row after UPDATE todos SET <updateProps>, edited_at = <at>.
Updated(row, updateProps, at) ==
    [ k \in DOMAIN row |->
        IF k = "editedAt" THEN at
        ELSE IF k \in DOMAIN updateProps THEN updateProps[k]
        ELSE row[k] ]

\* An update that writes the instance back whole: the props it read, changed
\* by updateProps, replace the stored row.
TodoUpdateWritingBack(rows, self, updateProps, at, outcome) ==
    IF outcome = "reserveFails"
    THEN [ threw |-> TRUE, props |-> self, rows |-> rows, leaked |-> 0 ]
    ELSE IF outcome = "statementFails" \/ UpdateRejects(updateProps)
    THEN [ threw |-> TRUE, props |-> self, rows |-> rows, leaked |-> 1 ]
    ELSE LET hit == { r \in rows : r.id = self.id }
             new == { Updated(self, updateProps, at) : r \in hit }
         IN  [ threw |-> FALSE,
               props |-> IF new = {} THEN self ELSE CHOOSE r \in new : TRUE,
               rows |-> (rows \ hit) \cup new, leaked |-> 0 ]

\* Todo.update on the instance with props `self`: [threw, props, rows, leaked].
\* With no row of that id the statement returns no row and props are kept.
TodoUpdate(rows, self, updateProps, at, outcome) ==
    IF outcome = "reserveFails"
    THEN [ threw |-> TRUE, props |-> self, rows |-> rows, leaked |-> 0 ]
    ELSE IF outcome = "statementFails" \/ UpdateRejects(updateProps)
    THEN [ threw |-> TRUE, props |-> self, rows |-> rows, leaked |-> 1 ]
    ELSE LET hit == { r \in rows : r.id = self.id }
             new == { Updated(r, updateProps, at) : r \in hit }
         IN  [ threw |-> FALSE,
               props |-> IF new = {} THEN self ELSE CHOOSE r \in new : TRUE,
               rows |-> (rows \ hit) \cup new, leaked |-> 0 ]

\* A delete that answers true whatever the count of deleted rows is.
DeleteReturningTrue(rows, self, outcome) ==
    IF outcome = "reserveFails"
    THEN [ threw |-> TRUE, result |-> FALSE, rows |-> rows, leaked |-> 0 ]
    ELSE IF outcome = "statementFails"
    THEN [ threw |-> TRUE, result |-> FALSE, rows |-> rows, leaked |-> 1 ]
    ELSE [ threw |-> FALSE, result |-> TRUE,
           rows |-> { r \in rows : r.id # self.id }, leaked |-> 0 ]

\* Todo.delete: [threw, result, rows, leaked]; result is count === 1.
TodoDelete(rows, self, outcome) ==
    IF outcome = "reserveFails"
    THEN [ threw |-> TRUE, result |-> FALSE, rows |-> rows, leaked |-> 0 ]
    ELSE IF outcome = "statementFails"
    THEN [ threw |-> TRUE, result |-> FALSE, rows |-> rows, leaked |-> 1 ]
    ELSE LET hit == { r \in rows : r.id = self.id }
         IN  [ threw |-> FALSE, result |-> Cardinality(hit) = 1,
               rows |-> rows \ hit, leaked |-> 0 ]

\* A column todo_id declared as a plain INTEGER: deleting a Todo leaves the
\* subtodos as they are.
WithoutForeignKey(subs, rows) == subs

\* todo_id REFERENCES todos(id) ON DELETE CASCADE: the subtodos left once the
\* rows of table todos are `rows`.
Cascade(subs, rows) ==
    { c \in subs : c.todoId = NullRef \/ \E r \in rows : r.id = c.todoId }

\* A markComplete that sets the status and forgets completedAt.
MarkCompleteWithoutCompletedAt(rows, self, at, outcome) ==
    TodoUpdate(rows, self, [status |-> "complete"], at, outcome)

\* Todo.markComplete: update({status: "complete", completedAt: now}).
TodoMarkComplete(rows, self, at, outcome) ==
    TodoUpdate(rows, self, [status |-> "complete", completedAt |-> at], at,
               outcome)

\* ------------------------------------------------------------- User module
\* User.create has an empty body: it inserts no row and returns nothing.
UserCreate(rows, email, password) == rows

\* User.login has an empty body: it returns nothing, whatever the credentials.
UserLogin(rows, email, password) == {}

\* ------------------------------------------------------------------ client
\* The client registers (email, password): the first submission per email counts.
Register(reg, email, password) ==
    IF \E c \in reg : c.email = email
    THEN reg
    ELSE reg \cup {[email |-> email, password |-> password]}

IsRegistered(reg, email) == \E c \in reg : c.email = email

ValidCredentials(reg, email, password) ==
    [email |-> email, password |-> password] \in reg

\* ------------------------------------------------------------------ router
\* router.get(path, handler) and its like: the binding that is registered.
Binding(method, path, controller, handler) ==
    [ method |-> method, path |-> path, controller |-> controller,
      handler |-> handler ]

\* A registerRoutes that registers GET /todos/:id before GET /todos/new.
TodoRoutesWithIdFirst ==
    << Binding("GET", <<"todos">>, "TodoController", "getTodoList"),
       Binding("GET", <<"todos", ":id">>, "TodoController", "getTodo"),
       Binding("GET", <<"todos", "new">>, "TodoController", "getNewTodoForm"),
       Binding("POST", <<"todos">>, "TodoController", "createTodo"),
       Binding("GET", <<"todos", ":id", "edit">>, "TodoController",
               "getEditTodoForm"),
       Binding("PUT", <<"todos", ":id">>, "TodoController", "updateTodo"),
       Binding("DELETE", <<"todos", ":id">>, "TodoController", "deleteTodo"),
       Binding("PUT", <<"todos", ":id", "complete">>, "TodoController",
               "completeTodo") >>

\* TodoController.registerRoutes: the bindings in the order of the calls.
TodoControllerRoutes ==
    << Binding("GET", <<"todos">>, "TodoController", "getTodoList"),
       Binding("GET", <<"todos", "new">>, "TodoController", "getNewTodoForm"),
       Binding("POST", <<"todos">>, "TodoController", "createTodo"),
       Binding("GET", <<"todos", ":id", "edit">>, "TodoController",
               "getEditTodoForm"),
       Binding("GET", <<"todos", ":id">>, "TodoController", "getTodo"),
       Binding("PUT", <<"todos", ":id">>, "TodoController", "updateTodo"),
       Binding("DELETE", <<"todos", ":id">>, "TodoController", "deleteTodo"),
       Binding("PUT", <<"todos", ":id", "complete">>, "TodoController",
               "completeTodo") >>

\* UserController.registerRoutes.
UserControllerRoutes ==
    << Binding("POST", <<"users">>, "UserController", "createUser") >>

\* AuthController.registerRoutes.
AuthControllerRoutes ==
    << Binding("GET", <<"register">>, "AuthController", "getRegistrationForm"),
       Binding("GET", <<"login">>, "AuthController", "getLoginForm"),
       Binding("POST", <<"login">>, "AuthController", "login"),
       Binding("GET", <<"logout">>, "AuthController", "logout") >>

Controllers == { "TodoController", "UserController", "AuthController" }

RoutesOf(controller) ==
    CASE controller = "TodoController" -> TodoControllerRoutes
      [] controller = "UserController" -> UserControllerRoutes
      [] controller = "AuthController" -> AuthControllerRoutes

\* The named segment of a path pattern.
IsParam(segment) == segment = ":id"

\* A pattern matches a path of as many segments whose segments are those of
\* the pattern, any segment standing for a named one.
PatternMatches(pattern, path) ==
    /\ Len(pattern) = Len(path)
    /\ \A i \in DOMAIN pattern : IsParam(pattern[i]) \/ pattern[i] = path[i]

\* Router.match: the handler of the first binding, in registration order, of
\* that method whose pattern matches the path.
Match(table, method, path) ==
    LET hits == { i \in DOMAIN table :
                    /\ table[i].method = method
                    /\ PatternMatches(table[i].path, path) }
    IN  IF hits = {}
        THEN "NotFound"
        ELSE table[CHOOSE i \in hits : \A j \in hits : i <= j].handler

\* The methods and paths of the requests the router is asked to match.
Methods == { "GET", "POST", "PUT", "DELETE" }
Paths ==
    { <<"todos">>, <<"todos", "new">>, <<"todos", "1">>, <<"todos", "abc">>,
      <<"todos", "1", "edit">>, <<"todos", "1", "complete">>, <<"users">>,
      <<"register">>, <<"login">>, <<"logout">> }

\* No request has been matched yet.
NoDispatch == [ method |-> "none", path |-> << >>, handler |-> "NotFound" ]

\* The bindings once the server has registered its three controllers.
ServerRoutes ==
    TodoControllerRoutes \o UserControllerRoutes \o AuthControllerRoutes

\* ------------------------------------------------------- requests under way
\* The requests that may be under way at once.
Slots == 1 .. MaxInFlight

\* No request is under way in the slot.
Idle ==
    [ stage |-> "idle", route |-> "none", id |-> 0, title |-> Missing,
      description |-> Missing, todo |-> {}, threw |-> FALSE ]

\* -------------------------------------------------------------------- Init
Init ==
    /\ todos = {}
    /\ nextId = 1
    /\ users = {}
    /\ reserved = 0
    /\ now = 1
    /\ lastReq = TodoRequest("none", 0, Missing, Missing)
    /\ res = NoResponse
    /\ registered = {}
    /\ actingAs = NoUser
    /\ creator = [ i \in {} |-> NoUser ]
    /\ logged = FALSE
    /\ subtodos = {}
    /\ nextSubId = 1
    /\ routes = ServerRoutes
    /\ dispatched = NoDispatch
    /\ inflight = [ s \in Slots |-> Idle ]

\* A store call may fail for outside reasons only while the model's bound on
\* leaked connections is not reached.
Outcomes(leakedSoFar) ==
    IF reserved + leakedSoFar < MaxReserved THEN StoreOutcomes ELSE {"ok"}

\* The body fields a handler may receive.
BodyTitles == Titles \cup {Missing}
BodyDescriptions == Descriptions \cup {Missing}
BodyEmails == Emails \cup {Missing}
BodyPasswords == Passwords \cup {Missing}

\* Time passes between two requests.
Tick ==
    /\ now < MaxTime
    /\ now' = now + 1
    /\ UNCHANGED << store, reserved, lastReq, res, client, logged, serving >>

\* ---------------------------------------------------------- TodoController
getNewTodoForm ==
    /\ lastReq' = TodoRequest("GET /todos/new", 0, Missing, Missing)
    /\ res' = Response(StatusOK, "New todo form", {}, {})
    /\ logged' = FALSE
    /\ UNCHANGED << store, reserved, now, client, serving >>

getEditTodoForm ==
    \E id \in IdParams, o \in Outcomes(0) :
        LET read == TodoRead(todos, id, o)
        IN  /\ reserved + read.leaked <= MaxReserved
            /\ reserved' = reserved + read.leaked
            /\ lastReq' = TodoRequest("GET /todos/:id/edit", id, Missing, Missing)
            /\ res' = Response(StatusOK, "Edit todo form", read.todo, {})
            /\ logged' = read.threw
            /\ UNCHANGED << store, now, client, serving >>

getTodoList ==
    \E o \in Outcomes(0) :
        LET read == TodoReadAll(todos, Missing, Missing, o)
        IN  /\ reserved' = reserved + read.leaked
            /\ lastReq' = TodoRequest("GET /todos", 0, Missing, Missing)
            /\ res' = Response(StatusOK, "Todo list retrieved", {}, read.todos)
            /\ logged' = read.threw
            /\ UNCHANGED << store, now, client, serving >>

getTodo ==
    \E id \in IdParams, o \in Outcomes(0) :
        LET read == TodoRead(todos, id, o)
        IN  /\ reserved + read.leaked <= MaxReserved
            /\ reserved' = reserved + read.leaked
            /\ lastReq' = TodoRequest("GET /todos/:id", id, Missing, Missing)
            /\ res' = Response(StatusOK, "Todo retrieved", read.todo, {})
            /\ logged' = read.threw
            /\ UNCHANGED << store, now, client, serving >>

createTodo ==
    \E title \in BodyTitles, description \in BodyDescriptions, o \in Outcomes(0) :
        LET todoProps == [ title |-> title, description |-> description,
                           status |-> "incomplete", createdAt |-> now ]
            made == TodoCreate(todos, nextId, todoProps, o)
        IN  /\ nextId <= MaxTodos
            /\ reserved + made.leaked <= MaxReserved
            /\ todos' = made.rows
            /\ nextId' = made.seq
            /\ reserved' = reserved + made.leaked
            /\ lastReq' = TodoRequest("POST /todos", 0, title, description)
            /\ res' = Response(StatusCreated, "Todo created successfully!",
                               made.todo, {})
            /\ logged' = made.threw
            /\ creator' = IF made.threw THEN creator
                          ELSE [ i \in DOMAIN creator \cup {nextId} |->
                                   IF i = nextId THEN actingAs ELSE creator[i] ]
            /\ UNCHANGED << users, subtodos, nextSubId, now, registered,
                            actingAs, serving >>

\* The props updateTodo collects: the body's truthy title and description.
UpdateProps(title, description) ==
    LET body == [ title |-> title, description |-> description ]
        keys == { k \in DOMAIN body : body[k] # Missing }
    IN  [ k \in keys |-> body[k] ]

\* updateTodo reads the Todo and calls update on it when it is not null
\* (todo?.update): only then is there a second store call with an outcome.
updateTodo ==
    \E id \in IdParams, title \in BodyTitles, description \in BodyDescriptions,
       o1 \in Outcomes(0) :
        LET read == TodoRead(todos, id, o1)
        IN  \E o2 \in IF read.todo = {} THEN {"ok"} ELSE Outcomes(0) :
            LET self == CHOOSE r \in read.todo : TRUE
                upd == IF read.todo = {}
                       THEN [ threw |-> FALSE, props |-> {}, rows |-> todos,
                              leaked |-> 0 ]
                       ELSE TodoUpdate(todos, self,
                                       UpdateProps(title, description), now, o2)
            IN  /\ reserved + read.leaked + upd.leaked <= MaxReserved
                /\ todos' = upd.rows
                /\ reserved' = reserved + read.leaked + upd.leaked
                /\ lastReq' = TodoRequest("PUT /todos/:id", id, title, description)
                /\ res' = Response(StatusOK, "Todo updated successfully!",
                                   IF read.todo = {} THEN {} ELSE {upd.props}, {})
                /\ logged' = (read.threw \/ upd.threw)
                /\ UNCHANGED << nextId, users, subtodos, nextSubId, now, client,
                                serving >>

deleteTodo ==
    \E id \in IdParams, o1 \in Outcomes(0) :
        LET read == TodoRead(todos, id, o1)
        IN  \E o2 \in IF read.todo = {} THEN {"ok"} ELSE Outcomes(0) :
            LET self == CHOOSE r \in read.todo : TRUE
                del == IF read.todo = {}
                       THEN [ threw |-> FALSE, result |-> FALSE, rows |-> todos,
                              leaked |-> 0 ]
                       ELSE TodoDelete(todos, self, o2)
            IN  /\ reserved + read.leaked + del.leaked <= MaxReserved
                /\ todos' = del.rows
                /\ subtodos' = Cascade(subtodos, del.rows)
                /\ reserved' = reserved + read.leaked + del.leaked
                /\ lastReq' = TodoRequest("DELETE /todos/:id", id, Missing, Missing)
                /\ res' = Response(StatusOK, "Todo deleted successfully!",
                                   read.todo, {})
                /\ logged' = (read.threw \/ del.threw)
                /\ UNCHANGED << nextId, users, nextSubId, now, client,
                                serving >>

completeTodo ==
    \E id \in IdParams, o1 \in Outcomes(0) :
        LET read == TodoRead(todos, id, o1)
        IN  \E o2 \in IF read.todo = {} THEN {"ok"} ELSE Outcomes(0) :
            LET self == CHOOSE r \in read.todo : TRUE
                upd == IF read.todo = {}
                       THEN [ threw |-> FALSE, props |-> {}, rows |-> todos,
                              leaked |-> 0 ]
                       ELSE TodoMarkComplete(todos, self, now, o2)
            IN  /\ reserved + read.leaked + upd.leaked <= MaxReserved
                /\ todos' = upd.rows
                /\ reserved' = reserved + read.leaked + upd.leaked
                /\ lastReq' = TodoRequest("PUT /todos/:id/complete", id, Missing,
                                          Missing)
                /\ res' = Response(StatusOK, "Todo marked as complete!",
                                   IF read.todo = {} THEN {} ELSE {upd.props}, {})
                /\ logged' = (read.threw \/ upd.threw)
                /\ UNCHANGED << nextId, users, subtodos, nextSubId, now, client,
                                serving >>

\* ------------------------------------------------- handlers, await by await
\* The handlers that await Todo.read and then await a second store call on the
\* Todo they read: other requests are served between the two.
ReadThenWriteRoutes ==
    { "PUT /todos/:id", "PUT /todos/:id/complete", "DELETE /todos/:id" }

\* The body fields of the requests that are served side by side.
LateTitles == { "Updated Test Todo", Missing }
LateDescriptions == { "This is an updated test todo", Missing }

\* updateTodo, completeTodo or deleteTodo from its start to the end of
\* `todo = await Todo.read(this.sql, id)`, errors caught and logged.
handlerReads ==
    \E s \in Slots, route \in ReadThenWriteRoutes, id \in Ids,
       title \in LateTitles, description \in LateDescriptions,
       o \in Outcomes(0) :
        LET read == TodoRead(todos, id, o)
        IN  /\ inflight[s].stage = "idle"
            /\ route # "PUT /todos/:id"
               => (title = Missing /\ description = Missing)
            /\ reserved + read.leaked <= MaxReserved
            /\ reserved' = reserved + read.leaked
            /\ inflight' = [ inflight EXCEPT ![s] =
                   [ stage |-> "read", route |-> route, id |-> id,
                     title |-> title, description |-> description,
                     todo |-> read.todo, threw |-> read.threw ] ]
            /\ UNCHANGED << store, now, lastReq, res, client, logged, routes,
                            dispatched >>

\* The second store call of the handler that read `rec.todo`, on today's
\* table: [threw, rows, leaked, todo], todo being what the response carries.
SecondCall(rec, rows, at, outcome) ==
    LET self == CHOOSE r \in rec.todo : TRUE
    IN  IF rec.todo = {}
        THEN [ threw |-> FALSE, rows |-> rows, leaked |-> 0, todo |-> {} ]
        ELSE IF rec.route = "DELETE /todos/:id"
        THEN LET del == TodoDelete(rows, self, outcome)
             IN  [ threw |-> del.threw, rows |-> del.rows,
                   leaked |-> del.leaked, todo |-> rec.todo ]
        ELSE LET upd == IF rec.route = "PUT /todos/:id"
                        THEN TodoUpdate(rows, self,
                                        UpdateProps(rec.title, rec.description),
                                        at, outcome)
                        ELSE TodoMarkComplete(rows, self, at, outcome)
             IN  [ threw |-> upd.threw, rows |-> upd.rows,
                   leaked |-> upd.leaked, todo |-> {upd.props} ]

\* The message of the response each of these handlers sends.
MessageOf(route) ==
    CASE route = "PUT /todos/:id" -> "Todo updated successfully!"
      [] route = "PUT /todos/:id/complete" -> "Todo marked as complete!"
      [] route = "DELETE /todos/:id" -> "Todo deleted successfully!"

\* The same handler from there to its end: `await todo?.update(todoProps)`,
\* `await todo?.markComplete()` or `await todo?.delete()`, then res.send.
handlerWrites ==
    \E s \in Slots :
        LET rec == inflight[s]
        IN  /\ rec.stage = "read"
            /\ \E o \in IF rec.todo = {} THEN {"ok"} ELSE Outcomes(0) :
                LET call == SecondCall(rec, todos, now, o)
                IN  /\ reserved + call.leaked <= MaxReserved
                    /\ todos' = call.rows
                    /\ subtodos' = IF rec.route = "DELETE /todos/:id"
                                   THEN Cascade(subtodos, call.rows)
                                   ELSE subtodos
                    /\ reserved' = reserved + call.leaked
                    /\ lastReq' = TodoRequest(rec.route, rec.id, rec.title,
                                              rec.description)
                    /\ res' = Response(StatusOK, MessageOf(rec.route),
                                       call.todo, {})
                    /\ logged' = (rec.threw \/ call.threw)
                    /\ inflight' = [ inflight EXCEPT
                           ![s].stage = "done",
                           ![s].threw = (rec.threw \/ call.threw) ]
                    /\ UNCHANGED << nextId, users, nextSubId, now, client,
                                    routes, dispatched >>

\* ------------------------------------------------------------ model tests
\* The updateProps a caller of Todo.update may pass: any Partial<TodoProps>.
PartialProps ==
    { [title |-> "Updated Test Todo"], [status |-> "incomplete"],
      [status |-> "complete"] }

\* The tests of the Todo model call update on an instance they read, with props
\* of their choice and through no handler.
callUpdate ==
    \E self \in todos, updateProps \in PartialProps, o \in Outcomes(0) :
        LET upd == TodoUpdate(todos, self, updateProps, now, o)
        IN  /\ reserved + upd.leaked <= MaxReserved
            /\ todos' = upd.rows
            /\ reserved' = reserved + upd.leaked
            /\ UNCHANGED << nextId, users, subtodos, nextSubId, now, lastReq,
                            res, client, logged, serving >>

\* ------------------------------------------------------------- the schema
\* An INSERT INTO subtodos by a client of the database: the row refers to no
\* Todo or to a stored one (the foreign key rejects any other todo_id).
insertSubtodo ==
    \E t \in Ids \cup {NullRef} :
        /\ nextSubId <= MaxSubtodos
        /\ t = NullRef \/ \E r \in todos : r.id = t
        /\ subtodos' = subtodos \cup {[id |-> nextSubId, todoId |-> t]}
        /\ nextSubId' = nextSubId + 1
        /\ UNCHANGED << todos, nextId, users, reserved, now, lastReq, res,
                        client, logged, serving >>

\* ------------------------------------------------------------------ Router
\* The server registers the routes of a controller it has not registered yet.
registerRoutes ==
    \E c \in Controllers :
        /\ ~\E i \in DOMAIN routes : routes[i].controller = c
        /\ routes' = routes \o RoutesOf(c)
        /\ UNCHANGED << store, reserved, now, lastReq, res, client, logged,
                        dispatched, inflight >>

\* The router matches a request against its bindings.
dispatch ==
    \E method \in Methods, path \in Paths :
        /\ dispatched' = [ method |-> method, path |-> path,
                           handler |-> Match(routes, method, path) ]
        /\ UNCHANGED << store, reserved, now, lastReq, res, client, logged,
                        routes, inflight >>

\* ---------------------------------------------------------- UserController
\* createUser has an empty body: no validation, no User.create, no res.send.
createUser ==
    \E email \in BodyEmails, password \in BodyPasswords,
       confirmPassword \in BodyPasswords :
        /\ lastReq' = UserRequest("POST /users", email, password, confirmPassword)
        /\ res' = NoResponse
        /\ logged' = FALSE
        /\ registered' =
              IF email # Missing /\ password # Missing /\ confirmPassword = password
              THEN Register(registered, email, password)
              ELSE registered
        /\ UNCHANGED << store, reserved, now, actingAs, creator, serving >>

\* The createUser helper of the tests: User.create called with the props.
callUserCreate ==
    \E email \in Emails, password \in Passwords :
        /\ users' = UserCreate(users, email, password)
        /\ registered' = Register(registered, email, password)
        /\ UNCHANGED << todos, nextId, subtodos, nextSubId, reserved, now,
                        lastReq, res, actingAs, creator, logged, serving >>

\* ---------------------------------------------------------- AuthController
getRegistrationForm ==
    /\ lastReq' = UserRequest("GET /register", Missing, Missing, Missing)
    /\ res' = NoResponse
    /\ logged' = FALSE
    /\ UNCHANGED << store, reserved, now, client, serving >>

getLoginForm ==
    /\ lastReq' = UserRequest("GET /login", Missing, Missing, Missing)
    /\ res' = NoResponse
    /\ logged' = FALSE
    /\ UNCHANGED << store, reserved, now, client, serving >>

\* login has an empty body: no User.login, no session, no res.send.
login ==
    \E email \in BodyEmails, password \in BodyPasswords :
        /\ lastReq' = UserRequest("POST /login", email, password, Missing)
        /\ res' = NoResponse
        /\ logged' = FALSE
        /\ actingAs' = IF ValidCredentials(registered, email, password)
                       THEN email ELSE actingAs
        /\ UNCHANGED << store, reserved, now, registered, creator, serving >>

\* logout has an empty body.
logout ==
    /\ lastReq' = UserRequest("GET /logout", Missing, Missing, Missing)
    /\ res' = NoResponse
    /\ logged' = FALSE
    /\ actingAs' = NoUser
    /\ UNCHANGED << store, reserved, now, registered, creator, serving >>

\* ------------------------------------------------------------------- Spec
TodoHandlers ==
    \/ getNewTodoForm
    \/ getEditTodoForm
    \/ getTodoList
    \/ getTodo
    \/ createTodo
    \/ updateTodo
    \/ deleteTodo
    \/ completeTodo

UserHandlers ==
    \/ createUser
    \/ getRegistrationForm
    \/ getLoginForm

Next ==
    \/ Tick
    \/ TodoHandlers
    \/ insertSubtodo
    \/ callUpdate
    \/ registerRoutes
    \/ dispatch
    \/ handlerReads
    \/ handlerWrites
    \/ UserHandlers
    \/ callUserCreate
    \/ login
    \/ logout

\* The whole application from an empty database.
Spec == Init /\ [][Next]_vars

\* MaxInFlight requests to update, complete and delete the one Todo that a
\* POST /todos has stored, served side by side: the handlers' awaits interleave.
InitConcurrent ==
    LET made == TodoCreate({}, 1,
                           [ title |-> "Test Todo",
                             description |-> "This is a test todo",
                             status |-> "incomplete", createdAt |-> 1 ], "ok")
    IN  /\ todos = made.rows
        /\ nextId = made.seq
        /\ users = {}
        /\ reserved = 0
        /\ now = 1
        /\ lastReq = TodoRequest("POST /todos", 0, "Test Todo",
                                 "This is a test todo")
        /\ res = Response(StatusCreated, "Todo created successfully!",
                          made.todo, {})
        /\ registered = {}
        /\ actingAs = NoUser
        /\ creator = [ i \in {1} |-> NoUser ]
        /\ logged = FALSE
        /\ subtodos = {}
        /\ nextSubId = 1
        /\ routes = ServerRoutes
        /\ dispatched = NoDispatch
        /\ inflight = [ s \in Slots |-> Idle ]

NextConcurrent ==
    \/ handlerReads
    \/ handlerWrites

SpecConcurrent == InitConcurrent /\ [][NextConcurrent]_vars

\* The router from its construction: the controllers register their routes in
\* any order and requests are matched.
InitRouter ==
    /\ todos = {}
    /\ nextId = 1
    /\ users = {}
    /\ reserved = 0
    /\ now = 1
    /\ lastReq = TodoRequest("none", 0, Missing, Missing)
    /\ res = NoResponse
    /\ registered = {}
    /\ actingAs = NoUser
    /\ creator = [ i \in {} |-> NoUser ]
    /\ logged = FALSE
    /\ subtodos = {}
    /\ nextSubId = 1
    /\ routes = << >>
    /\ dispatched = NoDispatch
    /\ inflight = [ s \in Slots |-> Idle ]

NextRouter ==
    \/ registerRoutes
    \/ dispatch

SpecRouter == InitRouter /\ [][NextRouter]_vars

\* The registration and login routes on their own, from an empty database.
NextUsers ==
    \/ UserHandlers
    \/ callUserCreate
    \/ login
    \/ logout

SpecUsers == Init /\ [][NextUsers]_vars

\* The Todo routes, for a client that has already asked to register the two
\* users of the tests with the default password and now logs in and out.
InitTodos ==
    /\ todos = {}
    /\ nextId = 1
    /\ users = {}
    /\ reserved = 0
    /\ now = 1
    /\ lastReq = UserRequest("POST /users", "user2@email.com", "password",
                             "password")
    /\ res = NoResponse
    /\ registered = { [email |-> e, password |-> "password"] : e \in Emails }
    /\ actingAs = NoUser
    /\ creator = [ i \in {} |-> NoUser ]
    /\ logged = FALSE
    /\ subtodos = {}
    /\ nextSubId = 1
    /\ routes = ServerRoutes
    /\ dispatched = NoDispatch
    /\ inflight = [ s \in Slots |-> Idle ]

NextTodos ==
    \/ Tick
    \/ TodoHandlers
    \/ login
    \/ logout

SpecTodos == InitTodos /\ [][NextTodos]_vars

\* The handlers that create, list, read, update, complete and delete a Todo, for a
\* client that never logs in: the handlers look at no session.
NextCrud ==
    \/ Tick
    \/ createTodo
    \/ getTodoList
    \/ getTodo
    \/ updateTodo
    \/ completeTodo
    \/ deleteTodo

SpecCrud == InitTodos /\ [][NextCrud]_vars

\* The operations on a Todo: create, update with any props, markComplete and
\* delete.
NextModel ==
    \/ Tick
    \/ createTodo
    \/ callUpdate
    \/ completeTodo
    \/ deleteTodo

SpecModel == InitTodos /\ [][NextModel]_vars

\* Table subtodos and the handlers that insert and delete the Todos its rows
\* refer to, from an empty database.
NextSubtodos ==
    \/ Tick
    \/ insertSubtodo
    \/ createTodo
    \/ deleteTodo

SpecSubtodos == Init /\ [][NextSubtodos]_vars

\* The state SpecTodos starts in is a state of Spec: two POST /users requests
\* lead to it.
ReachesInitTodos == ~InitTodos

\* ------------------------------------------------------------------ claims
IdRoutes ==
    { "GET /todos/:id", "PUT /todos/:id", "DELETE /todos/:id",
      "PUT /todos/:id/complete" }

\* The body of a POST /users request names an email and a password, twice.
WellFormedUser(req) ==
    /\ req.email # Missing
    /\ req.password # Missing
    /\ req.confirmPassword = req.password

\* C1: every Todo route answers a request of a client that is not logged in
\* with 401 "Unauthorized", and that request leaves table todos unchanged.
C1_UnauthenticatedTodoRequestIs401 ==
    [][ (lastReq'.route \in TodoRoutes /\ actingAs' = NoUser)
        => /\ res'.statusCode = StatusUnauthorized
           /\ res'.message = "Unauthorized"
           /\ todos' = todos ]_vars

\* C1's case: a Todo route has answered a client that is not logged in.
C1_Witness ==
    /\ lastReq.route = "POST /todos"
    /\ actingAs = NoUser
    /\ res.statusCode = StatusCreated
    /\ todos # {}

\* C2: a logged-in user who reads, updates, deletes or completes a Todo that
\* another user created gets 403 "Forbidden", and the Todo row is unchanged.
C2_OtherUsersTodoIs403 ==
    [][ ( /\ lastReq'.route \in IdRoutes
          /\ actingAs' # NoUser
          /\ \E r \in todos :
                /\ r.id = lastReq'.id
                /\ creator[r.id] \in Emails \ {actingAs'} )
        => /\ res'.statusCode = StatusForbidden
           /\ res'.message = "Forbidden"
           /\ todos' = todos ]_vars

\* C2's case: the client acts as one user and the stored Todo it asked for was
\* posted while it acted as the other one.
C2_Witness ==
    /\ lastReq.route = "GET /todos/:id"
    /\ actingAs # NoUser
    /\ \E r \in todos :
          r.id = lastReq.id /\ creator[r.id] \in Emails \ {actingAs}
    /\ res.todo # {}

\* C3: a POST /login with registered credentials is answered with 200 (the
\* session is established), and the Todo request that follows a logout is
\* answered with 401.
C3_SessionLifecycle ==
    [][ /\ ( /\ lastReq'.route = "POST /login"
             /\ ValidCredentials(registered, lastReq'.email, lastReq'.password) )
           => res'.statusCode = StatusOK
        /\ (lastReq.route = "GET /logout" /\ lastReq'.route \in TodoRoutes)
           => res'.statusCode = StatusUnauthorized ]_vars

\* C3's case: the client logged in, logged out and then asked for the list.
C3_Witness ==
    /\ lastReq.route = "GET /todos"
    /\ actingAs = NoUser
    /\ res.statusCode = StatusOK
    /\ \E i \in DOMAIN creator : creator[i] # NoUser

\* C4: POST /login with an email nobody registered, and POST /login with a
\* registered email and another password, are both answered
\* 400 "Invalid credentials.".
C4_InvalidCredentialsIs400 ==
    ( /\ lastReq.route = "POST /login"
      /\ lastReq.email \in Emails
      /\ lastReq.password \in Passwords
      /\ ~ValidCredentials(registered, lastReq.email, lastReq.password) )
    => /\ res.statusCode = StatusBadRequest
       /\ res.message = "Invalid credentials."

\* C4's case: a login with a registered email and a wrong password was handled.
C4_Witness ==
    /\ lastReq.route = "POST /login"
    /\ IsRegistered(registered, lastReq.email)
    /\ lastReq.password \in Passwords
    /\ ~ValidCredentials(registered, lastReq.email, lastReq.password)

\* C5: a POST /users with an email that was registered before is answered
\* 400 "User with this email already exists.", and no two rows of table users
\* have the same email.
C5_DuplicateEmailIs400 ==
    [][ /\ ( /\ lastReq'.route = "POST /users"
             /\ WellFormedUser(lastReq')
             /\ IsRegistered(registered, lastReq'.email) )
           => /\ res'.statusCode = StatusBadRequest
              /\ res'.message = "User with this email already exists."
        /\ \A u, v \in users' : u.email = v.email => u = v ]_vars

\* C5's case: the email of the last POST /users was registered with another
\* password before it.
C5_Witness ==
    /\ lastReq.route = "POST /users"
    /\ WellFormedUser(lastReq)
    /\ IsRegistered(registered, lastReq.email)
    /\ ~ValidCredentials(registered, lastReq.email, lastReq.password)

\* C6: POST /users is answered 400 and creates no user when the body lacks the
\* email ("Missing email."), lacks the password ("Missing password.") or has a
\* confirmPassword that differs from the password ("Passwords do not match").
C6_InvalidRegistrationIs400 ==
    [][ lastReq'.route = "POST /users"
        => /\ lastReq'.email = Missing
              => (res'.statusCode = StatusBadRequest /\ res'.message = "Missing email.")
           /\ (lastReq'.email # Missing /\ lastReq'.password = Missing)
              => (res'.statusCode = StatusBadRequest /\ res'.message = "Missing password.")
           /\ ( /\ lastReq'.email # Missing
                /\ lastReq'.password # Missing
                /\ lastReq'.confirmPassword # lastReq'.password )
              => (res'.statusCode = StatusBadRequest /\ res'.message = "Passwords do not match")
           /\ ~WellFormedUser(lastReq') => users' = users ]_vars

\* C6's case: a POST /users whose passwords differ was handled.
C6_Witness ==
    /\ lastReq.route = "POST /users"
    /\ lastReq.email # Missing
    /\ lastReq.password # Missing
    /\ lastReq.confirmPassword # lastReq.password

\* C7: every registration leaves a row of table users for the email, and the
\* password of that row is not the plain password that was submitted.
C7_StoresHashedPassword ==
    \A c \in registered :
        \E u \in users : u.email = c.email /\ u.password # c.password

\* C7's case: both users were registered, one of them through POST /users.
C7_Witness ==
    /\ lastReq.route = "POST /users"
    /\ [email |-> lastReq.email, password |-> lastReq.password] \in registered
    /\ \A e \in Emails : IsRegistered(registered, e)

\* payload.user carries the submitted email and password, createdAt, and no
\* editedAt.
CarriesUser(response, req) ==
    \E u \in response.user :
        /\ u.email = req.email
        /\ u.password = req.password
        /\ u.createdAt # NullTime
        /\ u.editedAt = NullTime

\* C8: a POST /users that registers a new email is answered 201 "User created"
\* and a POST /login with registered credentials 200 "Logged in successfully!",
\* both with the submitted email and password in payload.user.
C8_UserResponses ==
    [][ /\ ( /\ lastReq'.route = "POST /users"
             /\ WellFormedUser(lastReq')
             /\ ~IsRegistered(registered, lastReq'.email) )
           => /\ res'.statusCode = StatusCreated
              /\ res'.message = "User created"
              /\ CarriesUser(res', lastReq')
        /\ ( /\ lastReq'.route = "POST /login"
             /\ ValidCredentials(registered, lastReq'.email, lastReq'.password) )
           => /\ res'.statusCode = StatusOK
              /\ res'.message = "Logged in successfully!"
              /\ CarriesUser(res', lastReq') ]_vars

\* C8's case: a login with the credentials that were registered was handled.
C8_Witness ==
    /\ lastReq.route = "POST /login"
    /\ ValidCredentials(registered, lastReq.email, lastReq.password)
    /\ actingAs = lastReq.email

\* C9: a POST /todos with a title and a description from a logged-in client is
\* answered 201 "Todo created successfully!" with a Todo that is stored, that
\* Todo.read returns by its id, and that is incomplete, created now, never
\* completed and never edited.
C9_CreatedTodoIsStored ==
    [][ ( /\ lastReq'.route = "POST /todos"
          /\ lastReq'.title # Missing
          /\ lastReq'.description # Missing
          /\ actingAs' # NoUser )
        => /\ res'.statusCode = StatusCreated
           /\ res'.message = "Todo created successfully!"
           /\ \E r \in res'.todo :
                /\ TodoRead(todos', r.id, "ok").todo = {r}
                /\ r.title = lastReq'.title
                /\ r.description = lastReq'.description
                /\ r.status = "incomplete"
                /\ r.completedAt = NullTime
                /\ r.editedAt = NullTime
                /\ r.createdAt # NullTime ]_vars

\* C9's case: a logged-in client posted a Todo and the row was inserted.
C9_Witness ==
    /\ lastReq.route = "POST /todos"
    /\ actingAs # NoUser
    /\ res.todo # {}
    /\ res.todo \subseteq todos

\* C10: a POST /todos without title or without description is answered
\* 400 "Request body must include title and description." with no payload.todo,
\* and inserts no row.
C10_MissingFieldsIs400 ==
    [][ ( /\ lastReq'.route = "POST /todos"
          /\ (lastReq'.title = Missing \/ lastReq'.description = Missing) )
        => /\ res'.statusCode = StatusBadRequest
           /\ res'.message = "Request body must include title and description."
           /\ res'.todo = {}
           /\ todos' = todos ]_vars

\* C10's case: a POST /todos without a title was handled.
C10_Witness ==
    /\ lastReq.route = "POST /todos"
    /\ lastReq.title = Missing
    /\ lastReq.description # Missing

\* ------------------------------------------------------------ C11 .. C20
\* The step handles a request of one of `handled`: a handler sets lastReq and
\* leaves the clock alone, and the one step of SpecTodos and SpecCrud that is
\* no handler, Tick, moves the clock.
Handles(handled) == lastReq'.route \in handled /\ now' = now

\* The /todos/:id routes whose tests ask for 400 on an id that is no number.
CheckedIdRoutes == { "GET /todos/:id", "PUT /todos/:id/complete" }

\* C11: for a logged-in user every /todos/:id route (GET, PUT, DELETE, PUT
\* .../complete) whose id is a number that names no stored Todo answers
\* 404 "Not found", never 200 with an empty todo.
C11_UnknownIdIs404 ==
    [][ ( /\ Handles(IdRoutes)
          /\ actingAs' # NoUser
          /\ lastReq'.id \in Ids
          /\ ~\E r \in todos : r.id = lastReq'.id )
        => /\ res'.statusCode = StatusNotFound
           /\ res'.message = "Not found" ]_vars

\* C11's case: a logged-in client asked for a numeric id that names no row, the
\* read returned null and the handler answered.
C11_Witness ==
    /\ lastReq.route = "GET /todos/:id"
    /\ actingAs # NoUser
    /\ lastReq.id \in Ids
    /\ ~\E r \in todos : r.id = lastReq.id
    /\ ~logged
    /\ res.todo = {}

\* C12: for a logged-in user GET /todos/:id and PUT /todos/:id/complete with an
\* id segment that is no number answer 400 "Invalid ID" and change no Todo.
C12_NonNumericIdIs400 ==
    [][ ( /\ Handles(CheckedIdRoutes)
          /\ actingAs' # NoUser
          /\ lastReq'.id = NaN )
        => /\ res'.statusCode = StatusBadRequest
           /\ res'.message = "Invalid ID"
           /\ todos' = todos ]_vars

\* C12's case: a logged-in client asked to complete /todos/abc, the SELECT
\* rejected and the handler answered.
C12_Witness ==
    /\ lastReq.route = "PUT /todos/:id/complete"
    /\ actingAs # NoUser
    /\ lastReq.id = NaN
    /\ logged
    /\ res # NoResponse

\* C13: Todo.update(partialProps), on a store that does not fail, changes
\* exactly the supplied fields plus editedAt, which it sets whatever the props
\* are; every other field of the stored Todo is unchanged, and the same update
\* applied twice leaves the title the first application left.  Stated of the
\* call updateTodo makes with the props of its request.
C13_UpdateSetsSuppliedFieldsAndEditedAt ==
    [][ Handles({"PUT /todos/:id"})
        => \A r \in todos :
              r.id = lastReq'.id
              => LET p == UpdateProps(lastReq'.title, lastReq'.description)
                     once == TodoUpdate(todos, r, p, now, "ok")
                     twice == TodoUpdate(once.rows, once.props, p, now, "ok")
                 IN  /\ ~once.threw
                     /\ once.props.editedAt = now
                     /\ \A k \in DOMAIN r \ {"editedAt"} :
                           once.props[k] = IF k \in DOMAIN p THEN p[k] ELSE r[k]
                     /\ once.rows = (todos \ {r}) \cup {once.props}
                     /\ ~twice.threw
                     /\ twice.props.title = once.props.title
                     /\ (~logged' => /\ todos' = once.rows
                                     /\ res'.todo = {once.props}) ]_vars

\* C13's case: updateTodo called update({}) on a stored Todo, the UPDATE was
\* rejected and the row was left as it was.
C13_Witness ==
    /\ lastReq.route = "PUT /todos/:id"
    /\ lastReq.title = Missing
    /\ lastReq.description = Missing
    /\ logged
    /\ \E r \in todos : r.id = lastReq.id /\ r.editedAt = NullTime

\* The part of C13 about calls that supply a field: they change exactly the
\* supplied fields and editedAt, and are idempotent on the title.
UpdateOfSuppliedFields ==
    [][ ( /\ Handles({"PUT /todos/:id"})
          /\ UpdateProps(lastReq'.title, lastReq'.description) # << >> )
        => \A r \in todos :
              r.id = lastReq'.id
              => LET p == UpdateProps(lastReq'.title, lastReq'.description)
                     once == TodoUpdate(todos, r, p, now, "ok")
                     twice == TodoUpdate(once.rows, once.props, p, now, "ok")
                 IN  /\ ~once.threw
                     /\ once.props.editedAt = now
                     /\ \A k \in DOMAIN r \ {"editedAt"} :
                           once.props[k] = IF k \in DOMAIN p THEN p[k] ELSE r[k]
                     /\ once.rows = (todos \ {r}) \cup {once.props}
                     /\ twice.props.title = once.props.title
                     /\ (~logged' => /\ todos' = once.rows
                                     /\ res'.todo = {once.props}) ]_vars

\* C14: markComplete, on a store that does not fail, leaves the Todo with
\* status complete, completedAt set and editedAt set, whether the Todo was
\* incomplete or already complete; it does not fail on a complete Todo.  Stated
\* of the call completeTodo makes on the Todo it read, and of the row and the
\* response that handler leaves when nothing was thrown.
C14_MarkCompleteCompletes ==
    [][ Handles({"PUT /todos/:id/complete"})
        => \A r \in todos :
              r.id = lastReq'.id
              => LET m == TodoMarkComplete(todos, r, now, "ok")
                 IN  /\ ~m.threw
                     /\ m.props.status = "complete"
                     /\ m.props.completedAt # NullTime
                     /\ m.props.editedAt # NullTime
                     /\ \A k \in DOMAIN r \ {"status", "completedAt", "editedAt"} :
                           m.props[k] = r[k]
                     /\ ~logged'
                        => /\ todos' = m.rows
                           /\ res'.todo = {m.props}
                           /\ \E n \in todos' :
                                 /\ n.id = r.id
                                 /\ n.status = "complete"
                                 /\ n.completedAt = now
                                 /\ n.editedAt = now ]_vars

\* C14's case: completeTodo called markComplete on a stored Todo and nothing
\* was thrown; the Todo is complete.
C14_Witness ==
    /\ lastReq.route = "PUT /todos/:id/complete"
    /\ ~logged
    /\ \E r \in todos :
          /\ r.id = lastReq.id
          /\ r.status = "complete"
          /\ r.completedAt = now
          /\ res.todo = {r}

\* C15: a Todo's status only moves from incomplete to complete: whatever
\* create, update, markComplete or delete does, a stored Todo that is complete
\* before the operation is not incomplete after it.
C15_StatusOnlyMovesToComplete ==
    [][ \A r \in todos, n \in todos' :
           (n.id = r.id /\ r.status = "complete") => n.status = "complete" ]_vars

\* C15's case: a Todo that markComplete completed (completedAt is set) has been
\* updated and is stored as incomplete.
C15_Witness ==
    \E r \in todos :
        /\ r.status = "incomplete"
        /\ r.completedAt # NullTime
        /\ r.editedAt # NullTime

\* The part of C15 about the routes: updateTodo passes the body's title and
\* description only, so no request makes a complete Todo incomplete.
StatusOnlyMovesToCompleteOverRoutes ==
    [][ Handles(TodoRoutes)
        => \A r \in todos, n \in todos' :
              (n.id = r.id /\ r.status = "complete") => n.status = "complete" ]_vars

\* C16: Todo.delete(), on a store that does not fail, removes the row and
\* returns true exactly when one row was affected; afterwards Todo.read of
\* that id returns null without raising, and a second delete of the same Todo
\* returns false.  Stated of the call deleteTodo makes on the Todo it read, and
\* of the table that handler leaves when nothing was thrown.
C16_DeleteRemovesRow ==
    [][ Handles({"DELETE /todos/:id"})
        => \A r \in todos :
              r.id = lastReq'.id
              => LET del == TodoDelete(todos, r, "ok")
                     read == TodoRead(del.rows, r.id, "ok")
                     again == TodoDelete(del.rows, r, "ok")
                 IN  /\ ~del.threw
                     /\ del.rows = todos \ {r}
                     /\ del.result = (Cardinality(todos \ del.rows) = 1)
                     /\ del.result
                     /\ ~read.threw
                     /\ read.todo = {}
                     /\ ~again.threw
                     /\ again.rows = del.rows
                     /\ again.result = (Cardinality(del.rows \ again.rows) = 1)
                     /\ ~again.result
                     /\ ~logged' => todos' = del.rows ]_vars

\* C16's case: deleteTodo read a stored Todo and deleted it, nothing was
\* thrown, and no row has that id.
C16_Witness ==
    /\ lastReq.route = "DELETE /todos/:id"
    /\ ~logged
    /\ res.todo # {}
    /\ \A r \in res.todo : r.id = lastReq.id
    /\ ~\E r \in todos : r.id = lastReq.id

\* C17: deleting a Todo deletes all its Subtodos: in every reachable state each
\* stored Subtodo with a non-null todo_id refers to a stored Todo, so that a
\* fetch of the Subtodos of a deleted Todo returns none.
C17_SubtodosReferToStoredTodos ==
    /\ \A c \in subtodos :
          c.todoId # NullRef => \E r \in todos : r.id = c.todoId
    /\ \A id \in Ids :
          (~\E r \in todos : r.id = id) => { c \in subtodos : c.todoId = id } = {}

\* C17's case: deleteTodo deleted a stored Todo that Subtodos referred to:
\* fewer Subtodos are stored than were inserted.
C17_Witness ==
    /\ lastReq.route = "DELETE /todos/:id"
    /\ ~logged
    /\ res.todo # {}
    /\ ~\E r \in todos : r.id = lastReq.id
    /\ Cardinality(subtodos) < nextSubId - 1

\* The handlers C18 names: the ones that call the store and answer JSON.
StoreRoutes ==
    { "GET /todos", "GET /todos/:id", "POST /todos", "PUT /todos/:id",
      "DELETE /todos/:id", "PUT /todos/:id/complete" }

\* The request is one that validation lets through: a numeric id, the fields
\* POST /todos requires, a field for PUT /todos/:id to change.
PassesValidation(req) ==
    /\ req.id # NaN
    /\ req.route = "POST /todos"
       => (req.title # Missing /\ req.description # Missing)
    /\ req.route = "PUT /todos/:id"
       => UpdateProps(req.title, req.description) # << >>

\* C18: when a store call fails inside getTodo, getTodoList, createTodo,
\* updateTodo, deleteTodo or completeTodo, the client receives an error
\* response with status 500, never a 200 or 201 response with a null todo.
C18_StoreFailureIs500 ==
    [][ ( /\ Handles(StoreRoutes)
          /\ actingAs' # NoUser
          /\ PassesValidation(lastReq')
          /\ logged' )
        => res'.statusCode = StatusServerError ]_vars

\* C18's case: a logged-in client posted a Todo with both fields, the store
\* call was rejected and the handler caught the error and answered.
C18_Witness ==
    /\ lastReq.route = "POST /todos"
    /\ actingAs # NoUser
    /\ PassesValidation(lastReq)
    /\ logged
    /\ res.statusCode = StatusCreated
    /\ res.todo = {}

\* The values of column status.
Statuses == { "incomplete", "complete" }

\* C19: Todo.readAll(sql, userId, {status: s}), on a store that does not fail,
\* returns the stored Todos whose status is s and no Todo with another status;
\* without a filter it returns all of them, and GET /todos lists them.  Stated
\* of the table that getTodoList reads.
C19_ReadAllFiltersByStatus ==
    [][ Handles({"GET /todos"})
        => /\ \A s \in Statuses :
                 LET read == TodoReadAll(todos, Missing, [status |-> s], "ok")
                 IN  /\ ~read.threw
                     /\ read.todos = { r \in todos : r.status = s }
           /\ TodoReadAll(todos, Missing, Missing, "ok").todos = todos
           /\ ~logged' => res'.todos = todos ]_vars

\* C19's case: getTodoList listed a table that holds an incomplete Todo, and
\* readAll with the filter {status: "complete"} returns that Todo.
C19_Witness ==
    /\ lastReq.route = "GET /todos"
    /\ ~logged
    /\ \E r \in res.todos :
          /\ r.status = "incomplete"
          /\ r \in TodoReadAll(todos, Missing, [status |-> "complete"], "ok").todos

\* The requests that validation and authorization turn down: no session (401),
\* a Todo that another user created (403), an id that is no number or required
\* fields that are missing (400).
TurnedDown(req, user, rows, owner) ==
    \/ user = NoUser
    \/ /\ req.route \in IdRoutes
       /\ \E r \in rows : r.id = req.id /\ owner[r.id] \in Emails \ {user}
    \/ ~PassesValidation(req)

\* C20: validation and authorization are decided before the store is changed:
\* a Todo request that ends in 400, 401 or 403, as the requests that are
\* turned down do, has issued no INSERT, UPDATE or DELETE, so the store after
\* it equals the store before it.
C20_RejectedRequestLeavesStore ==
    [][ ( /\ Handles(TodoRoutes)
          /\ \/ res'.statusCode \in
                   { StatusBadRequest, StatusUnauthorized, StatusForbidden }
             \/ TurnedDown(lastReq', actingAs', todos, creator) )
        => store' = store ]_vars

\* C20's case: a logged-in client asked to delete a Todo that was posted while
\* the client acted as the other user, and the row is gone.
C20_Witness ==
    /\ lastReq.route = "DELETE /todos/:id"
    /\ actingAs # NoUser
    /\ lastReq.id \in DOMAIN creator
    /\ creator[lastReq.id] \in Emails \ {actingAs}
    /\ res.todo # {}
    /\ ~\E r \in todos : r.id = lastReq.id

\* ------------------------------------------------------------ C21 .. C28
\* C21: every operation of the Todo store (create, read, readAll, update,
\* delete) releases the connection it reserved, also when its statement fails:
\* between two requests, when no operation is in progress, no connection of the
\* pool is reserved.
C21_NoConnectionStaysReserved ==
    reserved = 0

\* C21's case: updateTodo called update on a stored Todo, the statement was
\* rejected and the handler caught the error.
C21_Witness ==
    /\ lastReq.route = "PUT /todos/:id"
    /\ lastReq.title # Missing
    /\ \E r \in todos : r.id = lastReq.id
    /\ logged
    /\ reserved > 0

\* The routes the User and Auth controllers register.
UserRoutes ==
    { "POST /users", "GET /register", "GET /login", "POST /login",
      "GET /logout" }

\* C22: every request routed to a registered handler of the Todo, User and
\* Auth controllers completes with exactly one response: once the handler has
\* returned, a response has been sent.
C22_HandlerSendsResponse ==
    lastReq.route \in TodoRoutes \cup UserRoutes => res # NoResponse

\* C22's case: the client asked GET /logout and the handler has returned.
C22_Witness ==
    /\ lastReq.route = "GET /logout"
    /\ actingAs = NoUser
    /\ registered # {}
    /\ res = NoResponse

\* The path has no named segment.
IsStatic(path) == \A i \in DOMAIN path : ~IsParam(path[i])

\* C23: each controller registers its static-path routes before its
\* parameterized routes, so with first-match-in-registration-order routing no
\* static route is shadowed: GET /todos/new reaches getNewTodoForm, never
\* getTodo with id "new", and GET /todos/:id/edit reaches getEditTodoForm.
C23_StaticRoutesAreNotShadowed ==
    /\ \A i, j \in DOMAIN routes :
          ( /\ i < j
            /\ routes[i].controller = routes[j].controller
            /\ IsStatic(routes[j].path) )
          => IsStatic(routes[i].path)
    /\ \A i \in DOMAIN routes :
          IsStatic(routes[i].path)
          => Match(routes, routes[i].method, routes[i].path) = routes[i].handler
    /\ (dispatched.method = "GET" /\ dispatched.path = <<"todos", "new">>)
       => dispatched.handler \in { "getNewTodoForm", "NotFound" }
    /\ (dispatched.method = "GET" /\ dispatched.path = <<"todos", "1", "edit">>)
       => dispatched.handler \in { "getEditTodoForm", "NotFound" }

\* C23's case: the three controllers have registered their routes and the
\* router has matched GET /todos/new to getNewTodoForm.
C23_Witness ==
    /\ Len(routes) = Len(ServerRoutes)
    /\ dispatched.method = "GET"
    /\ dispatched.path = <<"todos", "new">>
    /\ dispatched.handler = "getNewTodoForm"

\* C24: GET /todos returns only Todos owned by the user of the current
\* session: for two users A and B, no Todo that B created is in the list
\* returned to A.
C24_ListHoldsOwnTodosOnly ==
    [][ (Handles({"GET /todos"}) /\ actingAs' # NoUser)
        => \A r \in res'.todos : creator[r.id] = actingAs' ]_vars

\* C24's case: a logged-in client asked for the list while a Todo is stored
\* that was posted while the client acted as the other user.
C24_Witness ==
    /\ lastReq.route = "GET /todos"
    /\ actingAs # NoUser
    /\ ~logged
    /\ \E r \in todos : creator[r.id] \in Emails \ {actingAs}
    /\ res.todos = todos

\* C25: a Todo created through POST /todos is owned by the user of the session
\* that sent the request, whatever userId the body carries: the Todo that is
\* stored and answered names that user as its userId.
C25_CreatedTodoIsOwnedBySessionUser ==
    [][ (Handles({"POST /todos"}) /\ actingAs' # NoUser /\ ~logged')
        => \A r \in res'.todo :
              /\ r \in todos'
              /\ "userId" \in DOMAIN r
              /\ \E u \in users' : u.email = actingAs' /\ u.id = r.userId ]_vars

\* C25's case: a logged-in client posted a Todo, the INSERT succeeded, and the
\* stored row names no user.
C25_Witness ==
    /\ lastReq.route = "POST /todos"
    /\ actingAs # NoUser
    /\ ~logged
    /\ res.todo # {}
    /\ \A r \in res.todo : r \in todos /\ "userId" \notin DOMAIN r

\* A handler's second step: slot s goes from its read to its response.
Finishes(s) == inflight[s].stage = "read" /\ inflight'[s].stage = "done"

\* The handlers that read a Todo and then update it.
UpdatingRoutes == { "PUT /todos/:id", "PUT /todos/:id/complete" }

\* The request of slot s read a Todo that another request has deleted since.
ReadIsStale(s) ==
    /\ inflight[s].route \in UpdatingRoutes
    /\ inflight[s].todo # {}
    /\ ~ \E r \in todos : r.id = inflight[s].id

\* C26: when a Todo is deleted between a request's Todo.read and its update or
\* markComplete, the late write affects no row, the Todo stays absent, and the
\* late request does not report the Todo as updated.
C26_DeletedTodoNeverReappears ==
    [][ \A s \in Slots :
          (Finishes(s) /\ ReadIsStale(s))
          => /\ todos' = todos
             /\ TodoRead(todos', inflight[s].id, "ok").todo = {}
             /\ ~ ( res'.statusCode = StatusOK /\ res'.todo # {} ) ]_vars

\* The part of C26 that the store keeps: the late write changes no row and
\* the deleted Todo stays absent.
LateWriteAffectsNoRow ==
    [][ \A s \in Slots :
          (Finishes(s) /\ ReadIsStale(s))
          => /\ todos' = todos
             /\ TodoRead(todos', inflight[s].id, "ok").todo = {} ]_vars

\* A request to update a Todo that was deleted after the request read it has
\* been answered 200 with the props it read.
C26_Witness ==
    \E s \in Slots :
        /\ inflight[s].stage = "done"
        /\ inflight[s].route = "PUT /todos/:id"
        /\ inflight[s].title # Missing
        /\ inflight[s].todo # {}
        /\ lastReq.route = "PUT /todos/:id"
        /\ lastReq.id = inflight[s].id
        /\ lastReq.title = inflight[s].title
        /\ ~ \E r \in todos : r.id = lastReq.id
        /\ ~ logged
        /\ res.statusCode = StatusOK
        /\ res.message = "Todo updated successfully!"
        /\ res.todo = inflight[s].todo

\* Slot s has answered a request that read Todo `id` and caught no error.
Served(s, id) ==
    /\ inflight[s].stage = "done"
    /\ inflight[s].id = id
    /\ inflight[s].todo # {}
    /\ ~ inflight[s].threw

\* Slot s carried an update of the title alone.
TitleOnly(s) ==
    /\ inflight[s].route = "PUT /todos/:id"
    /\ inflight[s].title # Missing
    /\ inflight[s].description = Missing

\* Slot s carried an update of the description alone.
DescriptionOnly(s) ==
    /\ inflight[s].route = "PUT /todos/:id"
    /\ inflight[s].title = Missing
    /\ inflight[s].description # Missing

\* C27: no lost update between concurrent partial updates: once a title-only
\* update and a description-only update (or a completion) of the same Todo
\* have both been served, in whatever order their reads and writes fell, the
\* stored Todo carries both changes.
C27_NoLostUpdate ==
    \A a, b \in Slots, id \in Ids :
        (Served(a, id) /\ Served(b, id) /\ TitleOnly(a))
        => \A r \in todos :
              r.id = id
              => /\ r.title = inflight[a].title
                 /\ DescriptionOnly(b) => r.description = inflight[b].description
                 /\ inflight[b].route = "PUT /todos/:id/complete"
                    => (r.status = "complete" /\ r.completedAt # NullTime)

\* Both requests read the Todo before either wrote it, and the stored Todo
\* has the new title and the new description.
C27_Witness ==
    \E a, b \in Slots, id \in Ids :
        /\ Served(a, id) /\ TitleOnly(a)
        /\ Served(b, id) /\ DescriptionOnly(b)
        /\ \A r \in inflight[a].todo \cup inflight[b].todo :
              r.title = "Test Todo" /\ r.description = "This is a test todo"
        /\ lastReq.route = "PUT /todos/:id"
        /\ \E r \in todos :
              /\ r.id = id
              /\ r.title = inflight[a].title
              /\ r.description = inflight[b].description

\* C28: every Todo created through POST /todos and changed only through the
\* HTTP routes has status "complete" exactly when its completedAt is set.
C28_CompleteIffCompletedAt ==
    \A r \in todos : (r.status = "complete") <=> (r.completedAt # NullTime)

\* A Todo that was completed through PUT /todos/:id/complete and then updated
\* through PUT /todos/:id is still complete, with its completedAt.
C28_Witness ==
    /\ lastReq.route = "PUT /todos/:id"
    /\ lastReq.title # Missing
    /\ ~ logged
    /\ \E r \in todos :
          /\ r.id = lastReq.id
          /\ r.title = lastReq.title
          /\ r.status = "complete"
          /\ r.completedAt # NullTime
          /\ r.editedAt >= r.completedAt

====
